---- MODULE Spec2Model ----
(***************************************************************************)
(* DriveController (src/src/drive/controller.cc): the per-tick vehicle     *)
(* motion controller.  Every float of the program is represented by an     *)
(* integer number of thousandths (1.0 is SCALE); a product or quotient is   *)
(* rounded to the nearest thousandth, as the float operation rounds to the  *)
(* nearest representable value.  The inputs are finite and keep every       *)
(* denominator of the control law away from zero.                           *)
(***************************************************************************)
EXTENDS Integers, FiniteSets, Sequences, TLC

\* ---------------------------------------------------------------- numbers

\* one unit of the float representation: 1.0
SCALE == 1000

Abs(a) == IF a < 0 THEN -a ELSE a

Sgn(a) == IF a < 0 THEN -1 ELSE IF a > 0 THEN 1 ELSE 0

\* integer quotient a / b rounded to nearest (b # 0)
RDiv(a, b) == Sgn(a) * Sgn(b) * ((2 * Abs(a) + Abs(b)) \div (2 * Abs(b)))

\* float product and quotient
FMul(a, b) == RDiv(a * b, SCALE)

FDiv(a, b) == RDiv(a * SCALE, b)

\* largest r in lo..hi with r*r <= n  (lo*lo <= n)
RECURSIVE ISqrt(_, _, _)
ISqrt(n, lo, hi) ==
  IF lo >= hi THEN lo
  ELSE LET mid == (lo + hi + 1) \div 2
       IN  IF mid * mid <= n THEN ISqrt(n, mid, hi) ELSE ISqrt(n, lo, mid - 1)

\* sqrt() of math.h on a non-negative float
FSqrt(a) == ISqrt(a * SCALE, 0, 46340)

\* M_PI of math.h
M_PI == 3142

\* an angle brought into [-pi, pi]
RECURSIVE WrapPi(_)
WrapPi(a) ==
  IF a > M_PI THEN WrapPi(a - 2 * M_PI)
  ELSE IF a < -M_PI THEN WrapPi(a + 2 * M_PI)
  ELSE a

\* Taylor polynomials on [-pi/2, pi/2]
SinPoly(a) ==
  LET a2 == FMul(a, a)
      a3 == FMul(a2, a)
      a5 == FMul(a3, a2)
      a7 == FMul(a5, a2)
      a9 == FMul(a7, a2)
  IN  a - RDiv(a3, 6) + RDiv(a5, 120) - RDiv(a7, 5040) + RDiv(a9, 362880)

CosPoly(a) ==
  LET a2 == FMul(a, a)
      a4 == FMul(a2, a2)
      a6 == FMul(a4, a2)
      a8 == FMul(a4, a4)
  IN  SCALE - RDiv(a2, 2) + RDiv(a4, 24) - RDiv(a6, 720) + RDiv(a8, 40320)

\* sin() and cos() of math.h
Sin(a) ==
  LET r == WrapPi(a)
  IN  IF 2 * r > M_PI THEN SinPoly(M_PI - r)
      ELSE IF 2 * r < -M_PI THEN SinPoly(-M_PI - r)
      ELSE SinPoly(r)

Cos(a) ==
  LET r == WrapPi(a)
  IN  IF 2 * r > M_PI THEN -CosPoly(M_PI - r)
      ELSE IF 2 * r < -M_PI THEN -CosPoly(-M_PI - r)
      ELSE CosPoly(r)

\* atan() on [-1, 1]: z*pi/4 + 0.273*z*(1 - |z|), within 0.004 rad
AtanUnit(z) == RDiv(z * M_PI, 4 * SCALE) + FMul(273, FMul(z, SCALE - Abs(z)))

\* atan2() of math.h
Atan2(y, x) ==
  IF x = 0 /\ y = 0 THEN 0
  ELSE IF Abs(y) <= Abs(x)
       THEN LET a == AtanUnit(FDiv(y, x))
            IN  IF x > 0 THEN a
                ELSE IF y >= 0 THEN a + M_PI ELSE a - M_PI
       ELSE LET a == AtanUnit(FDiv(x, y))
            IN  IF y > 0 THEN RDiv(M_PI, 2) - a ELSE -RDiv(M_PI, 2) - a

\* -------------------------------------------------------------- constants

V_ALPHA == 300

\* V_SCALE of drive/controller.h: metres per encoder count
V_SCALE == 20

\* 2*M_PI*4
BW_SRV == 2 * M_PI * 4

M_K1 == 2580

M_K2 == 93

M_K3 == 218

M_OFFSET == 103

\* 6.5*.0254
GEOM_LF == RDiv(65 * 254, 100)

\* 5*.0254
GEOM_LR == RDiv(5 * 254, 10)

\* ------------------------------------------------------------------ state

VARIABLES
  x_, y_, theta_,            \* pose
  vf_, vr_, w_,              \* filtered wheel speeds, yaw rate
  ierr_v_, ierr_w_,          \* integrators
  delta_,                    \* steering angle
  target_k_, target_v_, target_w_, ye_, psie_, k_, bw_w_, bw_v_,  \* datalogging
  config,                    \* the DriverConfig the caller passes to every call
  throttle_out, steering_out,\* *throttle_out, *steering_out of the last GetControl
  last,                      \* the last call: its name, arguments and the fields it found
  steps                      \* calls made so far

fields == <<x_, y_, theta_, vf_, vr_, w_, ierr_v_, ierr_w_, delta_,
            target_k_, target_v_, target_w_, ye_, psie_, k_, bw_w_, bw_v_>>

vars == <<fields, config, throttle_out, steering_out, last, steps>>

\* calls in one behaviour
MaxSteps == 3

\* ----------------------------------------------------------------- inputs

\* DriverConfig: percentages, scaled by 0.01 before use
Configs ==
  { [steering_kpy |-> 100, steering_kvy |-> 50, speed_limit |-> 500,
     traction_limit |-> 300, yaw_bw |-> 50, motor_bw |-> 50],
    [steering_kpy |-> 50, steering_kvy |-> 20, speed_limit |-> 300,
     traction_limit |-> 200, yaw_bw |-> 10, motor_bw |-> 10] }

\* what Track::GetTarget writes through cx, cy, nx, ny, k when it returns true
TrackTargets ==
  { [cx |-> 2000, cy |-> 0, nx |-> 0, ny |-> 1000, k |-> 500],
    [cx |-> 1000, cy |-> 0, nx |-> -1000, ny |-> 0, k |-> -400] }

NoTarget == [cx |-> 0, cy |-> 0, nx |-> 0, ny |-> 0, k |-> 0]

\* poses the localisation hands over
Poses ==
  { [x |-> 0, y |-> 0, theta |-> 0],
    [x |-> 1000, y |-> 750, theta |-> 1571] }

\* servo_pos, wheel_delta[4], gyro[2], dt of one sensor sample
SensorSamples ==
  { [servo_pos |-> 127, wheel_delta |-> <<10, 10, 25, 25>>, gyro_z |-> 5000, dt |-> 50],
    [servo_pos |-> 200, wheel_delta |-> <<25, 25, 25, 25>>, gyro_z |-> 0, dt |-> 50],
    [servo_pos |-> 5, wheel_delta |-> <<0, 0, 0, 0>>, gyro_z |-> -12000, dt |-> 50] }

\* throttle_in, steering_in of a manual call; the caller does not clamp them
ManualSticks ==
  { <<0, 500>>, <<-1500, 1500>>, <<580, 0>>, <<1000, 1000>> }

\* throttle_in, steering_in, autodrive
Commands ==
  { [throttle_in |-> c[1], steering_in |-> c[2], autodrive |-> FALSE] : c \in ManualSticks }
  \cup { [throttle_in |-> 1000, steering_in |-> 0, autodrive |-> TRUE] }

\* dt of a GetControl call
TickDts == { 50 }

\* what uninitialised floats may hold
Garbage == { 0, 700 }

Diagnostics == { "target_k", "target_v", "target_w", "ye", "psie", "k", "bw_w", "bw_v" }

\* the fields a call finds, kept for the next state to compare with
Snapshot ==
  [ierr_v |-> ierr_v_, ierr_w |-> ierr_w_, delta |-> delta_,
   target_k |-> target_k_, target_v |-> target_v_, target_w |-> target_w_,
   ye |-> ye_, psie |-> psie_, k |-> k_, bw_w |-> bw_w_, bw_v |-> bw_v_]

NoCommand == [throttle_in |-> 0, steering_in |-> 0, autodrive |-> FALSE]

Call(op, cmd, dt, found, tgt, wrote) ==
  [op |-> op, cmd |-> cmd, dt |-> dt, found |-> found, tgt |-> tgt,
   wrote |-> wrote, pre |-> Snapshot]

\* ------------------------------------------------------------ construction

\* ResetState()
ResetState ==
  /\ steps < MaxSteps
  /\ vr_' = 0 /\ vf_' = 0
  /\ w_' = 0
  /\ ierr_v_' = 0
  /\ ierr_w_' = 0
  /\ last' = Call("ResetState", NoCommand, 0, FALSE, NoTarget, {})
  /\ steps' = steps + 1
  /\ UNCHANGED <<x_, y_, theta_, delta_, target_k_, target_v_, target_w_,
                 ye_, psie_, k_, bw_w_, bw_v_, config, throttle_out, steering_out>>

\* DriveController(): ResetState() and nothing else; the fields ResetState does
\* not assign hold whatever the object's memory held
Init ==
  /\ vr_ = 0 /\ vf_ = 0
  /\ w_ = 0
  /\ ierr_v_ = 0
  /\ ierr_w_ = 0
  /\ \E g \in Garbage :
       /\ x_ = g /\ y_ = g /\ theta_ = g /\ delta_ = g
       /\ target_k_ = g /\ target_v_ = g /\ target_w_ = g
       /\ ye_ = g /\ psie_ = g /\ k_ = g /\ bw_w_ = g /\ bw_v_ = g
       /\ last = [op |-> "DriveController", cmd |-> NoCommand, dt |-> 0, found |-> FALSE,
                  tgt |-> NoTarget, wrote |-> {},
                  pre |-> [ierr_v |-> 0, ierr_w |-> 0, delta |-> g, target_k |-> g,
                           target_v |-> g, target_w |-> g, ye |-> g, psie |-> g,
                           k |-> g, bw_w |-> g, bw_v |-> g]]
  /\ config \in Configs
  /\ throttle_out = 0 /\ steering_out = 0
  /\ steps = 0

\* --------------------------------------------------------------- UpdateState

clip(x, min, max) == IF x < min THEN min ELSE IF x > max THEN max ELSE x

\* (servo_pos - 126.5) / 121.3
ServoDelta(servo_pos) == FDiv(servo_pos * SCALE - 126500, 121300)

\* v *= (1 - V_ALPHA); v += V_ALPHA * V_SCALE * 0.5*(a + b)/dt
FilterV(v, a, b, dt) ==
  FMul(v, SCALE - V_ALPHA)
    + FDiv(FMul(FMul(V_ALPHA, V_SCALE), 500) * (a + b), dt)

UpdateState(s) ==
  /\ steps < MaxSteps
  /\ delta_' = ServoDelta(s.servo_pos)
  /\ vf_' = FilterV(vf_, s.wheel_delta[1], s.wheel_delta[2], s.dt)
  /\ vr_' = FilterV(vr_, s.wheel_delta[3], s.wheel_delta[4], s.dt)
  /\ w_' = s.gyro_z
  /\ last' = Call("UpdateState", NoCommand, s.dt, FALSE, NoTarget, {})
  /\ steps' = steps + 1
  /\ UNCHANGED <<x_, y_, theta_, ierr_v_, ierr_w_, target_k_, target_v_, target_w_,
                 ye_, psie_, k_, bw_w_, bw_v_, config, throttle_out, steering_out>>

\* the pose is handed over by the localisation between ticks
UpdateLocation(p) ==
  /\ steps < MaxSteps
  /\ x_' = p.x /\ y_' = p.y /\ theta_' = p.theta
  /\ last' = Call("UpdateLocation", NoCommand, 0, FALSE, NoTarget, {})
  /\ steps' = steps + 1
  /\ UNCHANGED <<vf_, vr_, w_, ierr_v_, ierr_w_, delta_, target_k_, target_v_,
                 target_w_, ye_, psie_, k_, bw_w_, bw_v_, config, throttle_out,
                 steering_out>>

\* ----------------------------------------------------------- TargetCurvature

\* ((x_ - cx)*nx + (y_ - cy)*ny)
LateralError(x, y, t) == FMul(x - t.cx, t.nx) + FMul(y - t.cy, t.ny)

\* Cp = -S*nx + C*ny
CosPsi(theta, t) == FMul(-Sin(theta), t.nx) + FMul(Cos(theta), t.ny)

\* Sp = S*ny + C*nx
SinPsi(theta, t) == FMul(Sin(theta), t.ny) + FMul(Cos(theta), t.nx)

\* the feedback law with the heading term not scaled by Sp
PathLawUnscaledHeading(cfg, ye, Cp, Sp, k) ==
  LET Cpy == FDiv(Cp, SCALE - FMul(k, ye))
      Kpy == RDiv(cfg.steering_kpy * SCALE, 100)
      Kvy == RDiv(cfg.steering_kvy * SCALE, 100)
  IN  FMul(Cpy, FMul(FMul(ye, Cpy), FMul(-Kpy, Cp))
                  + (FMul(k, Sp) - FMul(Kvy, Cp))
                  + k)

\* Cpy*(ye*Cpy*(-Kpy*Cp) + Sp*(k*Sp - Kvy*Cp) + k)
PathLaw(cfg, ye, Cp, Sp, k) ==
  LET Cpy == FDiv(Cp, SCALE - FMul(k, ye))
      Kpy == RDiv(cfg.steering_kpy * SCALE, 100)
      Kvy == RDiv(cfg.steering_kvy * SCALE, 100)
  IN  FMul(Cpy, FMul(FMul(ye, Cpy), FMul(-Kpy, Cp))
                  + FMul(Sp, FMul(k, Sp) - FMul(Kvy, Cp))
                  + k)

\* what TargetCurvature computes from a target t the track gave
CurvatureFor(cfg, x, y, theta, t) ==
  LET ye == LateralError(x, y, t)
      Cp == CosPsi(theta, t)
      Sp == SinPsi(theta, t)
  IN  [ye |-> ye, psie |-> Atan2(Sp, Cp), k |-> t.k,
       targetk |-> PathLaw(cfg, ye, Cp, Sp, t.k)]

\* circle right if you're confused
FallbackCurvature == 2 * SCALE

\* TargetCurvature circling left when it has no target
TargetCurvatureLeft(cfg, x, y, theta, found, t) ==
  IF ~found THEN -FallbackCurvature ELSE CurvatureFor(cfg, x, y, theta, t).targetk

\* the value TargetCurvature returns
TargetCurvature(cfg, x, y, theta, found, t) ==
  IF ~found THEN FallbackCurvature ELSE CurvatureFor(cfg, x, y, theta, t).targetk

\* TargetCurvature logging before it looks at what GetTarget returned
CurvatureLoggedAlways(found) == { "ye", "psie", "k", "target_k" }

\* the datalogging fields TargetCurvature assigns
CurvatureLogged(found) == IF found THEN { "ye", "psie", "k", "target_k" } ELSE {}

\* ---------------------------------------------------------------- GetControl

\* if (!autodrive && throttle_in <= 0): braking or coasting, controlled manually
BrakeOrCoast(cmd) == ~cmd.autodrive /\ cmd.throttle_in <= 0

\* k = -steering_in * 2 * fabs(steering_in), or autok under autodrive
ChosenK(cmd, autok) ==
  IF cmd.autodrive THEN autok
  ELSE FMul(-cmd.steering_in * 2, Abs(cmd.steering_in))

\* vmax = throttle_in * config.speed_limit * 0.01, or the speed limit under autodrive
Vmax(cfg, cmd) ==
  IF cmd.autodrive THEN RDiv(cfg.speed_limit * SCALE, 100)
  ELSE RDiv(cmd.throttle_in * cfg.speed_limit, 100)

\* config.traction_limit * 0.01
TractionLimit(cfg) == RDiv(cfg.traction_limit * SCALE, 100)

\* kmin = config.traction_limit * 0.01 / (vmax*vmax)
Kmin(cfg, vmax) == FDiv(TractionLimit(cfg), FMul(vmax, vmax))

\* vr_slip_target = (vf_ + w_*GEOM_LF*sin(delta_)) / cos(delta_)
VrSlipTarget(vf, w, delta) ==
  FDiv(vf + FMul(FMul(w, GEOM_LF), Sin(delta)), Cos(delta))

\* target_v with the slip target taken whenever it is lower, without the 1.0 floor
TargetVNoFloor(cfg, k, vmax, vf, w, delta) ==
  IF Abs(k) > Kmin(cfg, vmax)
  THEN LET v == FSqrt(FDiv(TractionLimit(cfg), Abs(k)))
           vr_slip_target == VrSlipTarget(vf, w, delta)
       IN  IF vr_slip_target < v THEN vr_slip_target ELSE v
  ELSE vmax

\* target_v: vmax, reduced by the traction limit and then by the slip target
TargetV(cfg, k, vmax, vf, w, delta) ==
  IF Abs(k) > Kmin(cfg, vmax)
  THEN LET v == FSqrt(FDiv(TractionLimit(cfg), Abs(k)))
           vr_slip_target == VrSlipTarget(vf, w, delta)
       IN  IF vr_slip_target < v /\ vr_slip_target > SCALE
           THEN vr_slip_target
           ELSE v
  ELSE vmax

\* target_w = k*vr_
TargetW(k, vr) == FMul(k, vr)

\* BW_w = 2*M_PI*0.01*config.yaw_bw
BW_w(cfg) == RDiv(2 * M_PI * cfg.yaw_bw, 100)

\* BW_v = 2*M_PI*0.01*config.motor_bw
BW_v(cfg) == RDiv(2 * M_PI * cfg.motor_bw, 100)

\* the yaw law without its clip
SteeringOutUnclipped(cfg, ierr_w, err_w) ==
  FMul(-BW_w(cfg), ierr_w + FDiv(err_w, BW_SRV))

\* *steering_out = clip(-BW_w * (ierr_w_ + err_w / BW_SRV), -1, 1)
SteeringOut(cfg, ierr_w, err_w) ==
  clip(FMul(-BW_w(cfg), ierr_w + FDiv(err_w, BW_SRV)), -SCALE, SCALE)

\* clip(-Kp*(err_v + Ki*ierr_v_) + M_OFFSET, 0, 1), Kp = BW_v / (M_K1 - M_K2*vr_)
DriveLaw(cfg, vr, err_v, ierr_v) ==
  LET Kp == FDiv(BW_v(cfg), M_K1 - FMul(M_K2, vr))
      Ki == M_K3
  IN  clip(FMul(-Kp, err_v + FMul(Ki, ierr_v)) + M_OFFSET, 0, SCALE)

\* clip(Kp2*(err_v + Ki*ierr_v_ - M_OFFSET), -1, 0), Kp2 = BW_v / (-M_K2*vr_)
BrakeLaw(cfg, vr, err_v, ierr_v) ==
  LET Kp2 == FDiv(BW_v(cfg), FMul(-M_K2, vr))
      Ki == M_K3
  IN  clip(FMul(Kp2, err_v + FMul(Ki, ierr_v) - M_OFFSET), -SCALE, 0)

\* *throttle_out without the switch to the braking law
ThrottleOutDriveOnly(cfg, vr, err_v, ierr_v) == DriveLaw(cfg, vr, err_v, ierr_v)

\* *throttle_out: the drive law, or the braking law when it gives 0 while moving
ThrottleOut(cfg, vr, err_v, ierr_v) ==
  LET drive == DriveLaw(cfg, vr, err_v, ierr_v)
  IN  IF drive = 0 /\ vr > 0 THEN BrakeLaw(cfg, vr, err_v, ierr_v) ELSE drive

\* the velocity integrator without the wind-up guard
IntegrateVAlways(throttle, ierr_v, dt, err_v) == ierr_v + FMul(dt, err_v)

\* if (*throttle_out > -1 && *throttle_out < 1) ierr_v_ += dt*err_v
IntegrateV(throttle, ierr_v, dt, err_v) ==
  IF throttle > -SCALE /\ throttle < SCALE THEN ierr_v + FMul(dt, err_v) ELSE ierr_v

\* the yaw integrator without the wind-up guard
IntegrateWAlways(steering, ierr_w, dt, err_w) == ierr_w + FMul(dt, err_w)

\* if (steering strictly inside, or the error unwinds the integrator) ierr_w_ += dt*err_w
IntegrateW(steering, ierr_w, dt, err_w) ==
  IF \/ (steering > -SCALE /\ steering < SCALE)
     \/ (err_w > 0 /\ ierr_w < 0)
     \/ (err_w < 0 /\ ierr_w > 0)
  THEN ierr_w + FMul(dt, err_w)
  ELSE ierr_w

\* the manual branch without `ierr_v_ = 0`
ManualOutputsKeepIntegrator(cmd) ==
  [throttle |-> cmd.throttle_in, steering |-> -cmd.steering_in, ierr_w |-> 0,
   ierr_v |-> ierr_v_]

\* the manual branch: outputs passed through, integrators reset
ManualOutputs(cmd) ==
  [throttle |-> cmd.throttle_in, steering |-> -cmd.steering_in, ierr_w |-> 0, ierr_v |-> 0]

\* the datalogging fields GetControl itself assigns
ControlLogged(cmd) ==
  IF BrakeOrCoast(cmd) THEN {} ELSE { "target_v", "target_w", "bw_w", "bw_v" }

GetControl(cmd, dt, found, t) ==
  LET tc       == CurvatureFor(config, x_, y_, theta_, t)
      autok    == TargetCurvature(config, x_, y_, theta_, found, t)
      k        == ChosenK(cmd, autok)
      vmax     == Vmax(config, cmd)
      target_v == TargetV(config, k, vmax, vf_, w_, delta_)
      target_w == TargetW(k, vr_)
      err_v    == vr_ - target_v
      err_w    == w_ - target_w
      steer    == SteeringOut(config, ierr_w_, err_w)
      thr      == ThrottleOut(config, vr_, err_v, ierr_v_)
      logged   == CurvatureLogged(found)
      man      == ManualOutputs(cmd)
  IN  /\ steps < MaxSteps
      /\ ye_' = IF "ye" \in logged THEN tc.ye ELSE ye_
      /\ psie_' = IF "psie" \in logged THEN tc.psie ELSE psie_
      /\ k_' = IF "k" \in logged THEN tc.k ELSE k_
      /\ target_k_' = IF "target_k" \in logged THEN tc.targetk ELSE target_k_
      /\ IF BrakeOrCoast(cmd)
         THEN /\ throttle_out' = man.throttle
              /\ steering_out' = man.steering
              /\ ierr_w_' = man.ierr_w
              /\ ierr_v_' = man.ierr_v
              /\ UNCHANGED <<target_v_, target_w_, bw_w_, bw_v_>>
         ELSE /\ steering_out' = steer
              /\ throttle_out' = thr
              /\ ierr_v_' = IntegrateV(thr, ierr_v_, dt, err_v)
              /\ ierr_w_' = IntegrateW(steer, ierr_w_, dt, err_w)
              /\ target_v_' = target_v
              /\ target_w_' = target_w
              /\ bw_w_' = BW_w(config)
              /\ bw_v_' = BW_v(config)
      /\ last' = Call("GetControl", cmd, dt, found, t, logged \cup ControlLogged(cmd))
      /\ steps' = steps + 1
      /\ UNCHANGED <<x_, y_, theta_, vf_, vr_, w_, delta_, config>>

\* ------------------------------------------------------------ specification

Next ==
  \/ ResetState
  \/ \E s \in SensorSamples : UpdateState(s)
  \/ \E p \in Poses : UpdateLocation(p)
  \/ \E cmd \in Commands, dt \in TickDts, found \in BOOLEAN :
       \E t \in (IF found THEN TrackTargets ELSE { NoTarget }) :
         GetControl(cmd, dt, found, t)

Spec == Init /\ [][Next]_vars

\* ------------------------------------------------------------------ claims

\* the last call was a GetControl tick
Ticked == last.op = "GetControl"

\* ... in manual coast/brake mode
Coasted == Ticked /\ ~last.cmd.autodrive /\ last.cmd.throttle_in <= 0

\* ... in active mode (autodrive, or manual with positive throttle)
Active == Ticked /\ (last.cmd.autodrive \/ last.cmd.throttle_in > 0)

InUnit(v) == -SCALE <= v /\ v <= SCALE

\* err_v and err_w of the last active tick (GetControl leaves vr_ and w_ alone)
ErrV == vr_ - target_v_

ErrW == w_ - target_w_

\* C1: a GetControl call with autodrive = false and throttleIn <= 0 returns
\* throttleOut = throttleIn and steeringOut = -steeringIn and leaves both
\* integrators exactly 0, whatever they held before.
C1_ManualCoast ==
  Coasted =>
    /\ throttle_out = last.cmd.throttle_in
    /\ steering_out = -last.cmd.steering_in
    /\ ierr_v_ = 0
    /\ ierr_w_ = 0

\* a coast tick that found both integrators wound up
C1_Witness ==
  /\ Coasted
  /\ last.pre.ierr_v # 0 /\ last.pre.ierr_w # 0
  /\ ierr_v_ = 0 /\ ierr_w_ = 0
  /\ steering_out = -last.cmd.steering_in /\ steering_out # 0

\* C2 as stated: every GetControl call, in every mode and for every throttleIn
\* and steeringIn, produces throttleOut and steeringOut in [-1, 1].
C2_OutputsBounded == Ticked => InUnit(throttle_out) /\ InUnit(steering_out)

\* C2 amended: in active mode both outputs lie in [-1, 1]; in manual coast/brake
\* mode the outputs are the unclipped inputs, so each lies in [-1, 1] exactly when
\* its input does.
C2_OutputsBoundedWhenActive ==
  /\ Active => InUnit(throttle_out) /\ InUnit(steering_out)
  /\ Coasted =>
       /\ InUnit(throttle_out) <=> InUnit(last.cmd.throttle_in)
       /\ InUnit(steering_out) <=> InUnit(last.cmd.steering_in)

\* an active tick on which both laws ran into their limits
C2_Witness ==
  /\ Active
  /\ Abs(throttle_out) = SCALE
  /\ Abs(steering_out) = SCALE

\* C3: in active mode ierr_v is advanced by dt*err_v only on a tick whose
\* throttleOut is strictly inside (-1, 1); on a tick whose throttleOut is 1 or -1
\* it is left as it was.
C3_VelocityAntiWindup ==
  Active =>
    ierr_v_ = IF throttle_out > -SCALE /\ throttle_out < SCALE
              THEN last.pre.ierr_v + FMul(last.dt, ErrV)
              ELSE last.pre.ierr_v

\* a saturated tick with a wound-up integrator and an error still to integrate
C3_Witness ==
  /\ Active
  /\ Abs(throttle_out) = SCALE
  /\ last.pre.ierr_v # 0
  /\ FMul(last.dt, ErrV) # 0
  /\ ierr_v_ = last.pre.ierr_v

\* the curvature and speed ceiling the last active tick chose, from its arguments
\* and from what it logged
TickK ==
  IF last.cmd.autodrive
  THEN (IF last.found THEN target_k_ ELSE 2 * SCALE)
  ELSE FMul(-last.cmd.steering_in * 2, Abs(last.cmd.steering_in))

TickVmax ==
  IF last.cmd.autodrive THEN config.speed_limit * 10
  ELSE RDiv(last.cmd.throttle_in * config.speed_limit, 100)

\* tractionLimit = 0.01*config.traction_limit
TickTraction == config.traction_limit * 10

\* |k| > tractionLimit/vmax^2
TickLimited == Abs(TickK) > FDiv(TickTraction, FMul(TickVmax, TickVmax))

\* sqrt(tractionLimit/|k|)
TickTractionSpeed == FSqrt(FDiv(TickTraction, Abs(TickK)))

\* (vf + w*Lf*sin(delta))/cos(delta)
TickSlip == FDiv(vf_ + FMul(FMul(w_, GEOM_LF), Sin(delta_)), Cos(delta_))

\* C4: in active mode, if |k| > tractionLimit/vmax^2 the recorded target speed
\* is sqrt(tractionLimit/|k|), unless vrSlipTarget is strictly smaller than that
\* and strictly greater than 1.0, and then it is vrSlipTarget; otherwise the
\* target speed is vmax and the slip correction is not applied.
C4_TractionLimiter ==
  Active =>
    IF TickLimited
    THEN IF TickSlip < TickTractionSpeed /\ TickSlip > SCALE
         THEN target_v_ = TickSlip
         ELSE target_v_ = TickTractionSpeed
    ELSE target_v_ = TickVmax

\* a tick on which the slip target replaced the traction-limited speed
C4_Witness ==
  /\ Active
  /\ TickLimited
  /\ TickSlip < TickTractionSpeed /\ TickSlip > SCALE
  /\ target_v_ = TickSlip
  /\ TickTractionSpeed < TickVmax

\* C5: when the track gives no target, TargetCurvature returns 2, so an autodrive
\* tick steers for curvature 2: target_w = 2*vr, and the target speed is the one
\* the traction limiter gives for k = 2.
C5_FallbackCurvature ==
  (Ticked /\ last.cmd.autodrive /\ ~last.found) =>
    /\ target_w_ = 2 * vr_
    /\ target_v_ \in { TickVmax, FSqrt(FDiv(TickTraction, 2 * SCALE)), TickSlip }

\* an autodrive tick without a target, on the move
C5_Witness ==
  /\ Ticked /\ last.cmd.autodrive /\ ~last.found
  /\ vr_ > 0
  /\ target_w_ = 2 * vr_
  /\ target_w_ # last.pre.target_w

\* C6: for every config, when the lateral error is 0 and the heading error is
\* zero (Cp = 1, Sp = 0), TargetCurvature returns exactly the path's curvature k
\* the track gave; under autodrive that is the curvature steered for.
C6_OnPathCurvature ==
  (/\ Ticked /\ last.found
   /\ LateralError(x_, y_, last.tgt) = 0
   /\ CosPsi(theta_, last.tgt) = SCALE
   /\ SinPsi(theta_, last.tgt) = 0) =>
    /\ target_k_ = last.tgt.k
    /\ last.cmd.autodrive => target_w_ = FMul(last.tgt.k, vr_)

\* on the path and along it, with a turned heading and a curved path
C6_Witness ==
  /\ Ticked /\ last.found /\ last.cmd.autodrive
  /\ ye_ = 0 /\ LateralError(x_, y_, last.tgt) = 0
  /\ CosPsi(theta_, last.tgt) = SCALE
  /\ SinPsi(theta_, last.tgt) = 0
  /\ theta_ # 0 /\ y_ # last.tgt.cy
  /\ target_k_ = last.tgt.k /\ target_k_ # 0
  /\ vr_ > 0

\* C7: after the constructor, and after ResetState following any calls, every
\* field of the controller's state is 0.
C7_AllZeroAfterReset ==
  last.op \in { "DriveController", "ResetState" } =>
    /\ x_ = 0 /\ y_ = 0 /\ theta_ = 0
    /\ vf_ = 0 /\ vr_ = 0 /\ w_ = 0
    /\ delta_ = 0
    /\ ierr_v_ = 0 /\ ierr_w_ = 0
    /\ target_k_ = 0 /\ target_v_ = 0 /\ target_w_ = 0
    /\ ye_ = 0 /\ psie_ = 0 /\ k_ = 0 /\ bw_w_ = 0 /\ bw_v_ = 0

\* the drive law of the last active tick gave exactly 0 while moving
TickBraked ==
  /\ Active
  /\ DriveLaw(config, vr_, ErrV, last.pre.ierr_v) = 0
  /\ vr_ > 0

\* err_v + K3*ierr_v of the last active tick
TickE == ErrV + FMul(M_K3, last.pre.ierr_v)

\* C8 as stated: when the drive law gives 0 while vr > 0, the throttleOut
\* returned is strictly negative and at least -1.
C8_BrakeStrictlyNegative == TickBraked => -SCALE <= throttle_out /\ throttle_out < 0

\* C8 amended: when the drive law gives 0 while vr > 0, throttleOut lies in
\* [-1, 0]: it is strictly negative when err_v + K3*ierr_v > Moffset and exactly
\* 0 otherwise (motor bandwidth positive).
C8_BrakeNotPositive ==
  TickBraked =>
    /\ -SCALE <= throttle_out /\ throttle_out <= 0
    /\ (TickE > M_OFFSET) => throttle_out < 0
    /\ (TickE <= M_OFFSET) => throttle_out = 0

\* a braking tick that stayed inside the limit
C8_Witness ==
  /\ TickBraked
  /\ TickE > M_OFFSET
  /\ throttle_out < 0

\* err_w and ierr_w of the last tick had strictly opposite signs
TickUnwinds ==
  \/ (ErrW > 0 /\ last.pre.ierr_w < 0)
  \/ (ErrW < 0 /\ last.pre.ierr_w > 0)

TickSteeringSaturated == Active /\ Abs(steering_out) = SCALE

C10_AllDiagnosticsOverwritten == Ticked => last.wrote = Diagnostics

\* C10 amended: a tick overwrites ye, psie, k and target_k only when the track
\* gives a target, and target_v, target_w, bw_w and bw_v only in active mode; the
\* fields it does not overwrite keep the value an earlier call left.
C10_DiagnosticsOverwrittenWhenComputed ==
  Ticked =>
    /\ last.wrote = (IF last.found THEN { "ye", "psie", "k", "target_k" } ELSE {})
                      \cup (IF Active THEN { "target_v", "target_w", "bw_w", "bw_v" } ELSE {})
    /\ IF last.found
       THEN /\ ye_ = LateralError(x_, y_, last.tgt)
            /\ k_ = last.tgt.k
            /\ psie_ = Atan2(SinPsi(theta_, last.tgt), CosPsi(theta_, last.tgt))
       ELSE /\ ye_ = last.pre.ye /\ psie_ = last.pre.psie
            /\ k_ = last.pre.k /\ target_k_ = last.pre.target_k
    /\ IF Active
       THEN /\ target_w_ = FMul(TickK, vr_)
            /\ bw_w_ = RDiv(2 * M_PI * config.yaw_bw, 100)
            /\ bw_v_ = RDiv(2 * M_PI * config.motor_bw, 100)
       ELSE /\ target_v_ = last.pre.target_v /\ target_w_ = last.pre.target_w
            /\ bw_w_ = last.pre.bw_w /\ bw_v_ = last.pre.bw_v

\* a coast tick without a target, after a tick that logged all eight fields
C10_Witness ==
  /\ Coasted /\ ~last.found
  /\ last.wrote = {}
  /\ target_v_ = last.pre.target_v
  /\ k_ = last.pre.k /\ k_ \in { t.k : t \in TrackTargets }
  /\ bw_w_ = last.pre.bw_w /\ bw_w_ = RDiv(2 * M_PI * config.yaw_bw, 100)

====
